---- MODULE Spec2Model ----
(***************************************************************************)
(* A model of vaspy/matstudio.py: XsdFile (the markup document and the     *)
(* per-atom arrays read from it and written back to it) and ArcFile (the   *)
(* trajectory reader).                                                     *)
(*                                                                         *)
(* Representation.                                                         *)
(*  - The element tree is the sequence of its elements in document order   *)
(*    (the order of ElementTree.iter()); an element is a record            *)
(*    [tag, attrib], attrib a function whose domain is the set of          *)
(*    attributes the element carries (a Python dict).                      *)
(*  - A comma-separated attribute value ("0.5,1,0") is the sequence of its *)
(*    comma-separated fields; a whitespace-separated string is the         *)
(*    sequence of its tokens and a token the sequence of its               *)
(*    colon-separated fields.                                              *)
(*  - A float is an integer number of tenths.  Float() and Str() are the   *)
(*    conversions float() and str() restricted to the numerals of the      *)
(*    model; str() of a float is the shortest numeral that reads back as   *)
(*    the same float (Python 3).                                           *)
(*  - An attribute of the object that has not been assigned is <<>>, an    *)
(*    assigned one is <<value>> (energy, force, magnetism).                *)
(***************************************************************************)
EXTENDS Integers, Sequences, FiniteSets, TLC

\* ------------------------------------------------------------------ bounds
MaxAtoms == 3
MaxEdits == 1
MaxTokens == 4
MaxLines == 6

\* --------------------------------------------------------- strings, floats

\* str.strip() on the strings of the model
Strip(s) ==
    CASE s = " 0.5 " -> "0.5"
      [] s = " " -> ""
      [] OTHER -> s

\* the strings float() accepts (it raises ValueError on the others)
IsFloatStr(s) == Strip(s) \in {"0", "0.0", "0.5", "0.50", "1", "1.0", "-1.5"}

\* float(s), in tenths
Float(s) ==
    CASE Strip(s) \in {"0", "0.0"} -> 0
      [] Strip(s) \in {"0.5", "0.50"} -> 5
      [] Strip(s) \in {"1", "1.0"} -> 10
      [] Strip(s) = "-1.5" -> -15

\* a str() that keeps only the integer part of the number
StrTruncated(v) ==
    CASE v = 0 -> "0.0"
      [] v = 5 -> "0.0"
      [] v = 10 -> "1.0"
      [] v = -15 -> "-1.0"

\* str(v) of a float v
Str(v) ==
    CASE v = 0 -> "0.0"
      [] v = 5 -> "0.5"
      [] v = 10 -> "1.0"
      [] v = -15 -> "-1.5"

\* [float(i.strip()) for i in s.split(',')]
ParseVec(fields) == [i \in 1..Len(fields) |-> Float(Strip(fields[i]))]

\* ','.join([str(v) for v in xyz])
JoinVec(v) == [i \in 1..Len(v) |-> Str(v[i])]

\* atom + '_custom'
Custom(atom) ==
    CASE atom = "A" -> "A_custom"
      [] atom = "B" -> "B_custom"
      [] OTHER -> "_custom"

\* os.getcwd()
Cwd == "/cwd"

\* ---------------------------------------------------------------- dicts
EmptyDict == [k \in {} |-> <<>>]

\* d[k] = v
Put(d, k, v) == [x \in (DOMAIN d) \cup {k} |-> IF x = k THEN v ELSE d[x]]

\* d.pop(k)
Pop(d, k) == [x \in (DOMAIN d) \ {k} |-> d[x]]

\* elem.attrib with attribute k set to v
SetAttr(elem, k, v) == [elem EXCEPT !.attrib = Put(elem.attrib, k, v)]

Has(elem, k) == k \in DOMAIN elem.attrib

TTT == <<"T", "T", "T">>
FFF == <<"F", "F", "F">>

\* the positions, in document order, of the elements tree.iter(tag) yields
IterTag(tr, tag) == {j \in 1..Len(tr) : tr[j].tag = tag}

Min(S) == CHOOSE x \in S : \A y \in S : x <= y

\* ------------------------------------------------------------ get_atom_info

NoAtoms ==
    [atoms |-> <<>>, natoms_dict |-> EmptyDict, atomco_dict |-> EmptyDict,
     tf_dict |-> EmptyDict, atom_name_dict |-> EmptyDict]

\* the body of the loop over tree.iter('Atom3d') for one element
ScanAtom(elem, acc) ==
    IF elem.tag = "Atom3d" /\ Has(elem, "XYZ")
    THEN LET atom == elem.attrib["Components"]
             seen == atom \in DOMAIN acc.natoms_dict
             coordinate == ParseVec(elem.attrib["XYZ"])
             tf_info == IF Has(elem, "RestrictedProperties") THEN FFF ELSE TTT
             got == IF Has(elem, "Name") THEN elem.attrib["Name"] ELSE ""
             atom_name == IF got = "" THEN Custom(atom) ELSE got
         IN  [atoms |-> IF seen THEN acc.atoms ELSE Append(acc.atoms, atom),
              natoms_dict |->
                  Put(acc.natoms_dict, atom,
                      IF seen THEN acc.natoms_dict[atom] + 1 ELSE 1),
              atomco_dict |->
                  Put(acc.atomco_dict, atom,
                      IF seen THEN Append(acc.atomco_dict[atom], coordinate)
                      ELSE <<coordinate>>),
              tf_dict |->
                  Put(acc.tf_dict, atom,
                      IF seen THEN Append(acc.tf_dict[atom], tf_info)
                      ELSE <<tf_info>>),
              atom_name_dict |->
                  Put(acc.atom_name_dict, atom,
                      IF seen THEN Append(acc.atom_name_dict[atom], atom_name)
                      ELSE <<atom_name>>)]
    ELSE acc

RECURSIVE ScanAtoms(_, _, _)
ScanAtoms(tr, j, acc) ==
    IF j > Len(tr) THEN acc ELSE ScanAtoms(tr, j + 1, ScanAtom(tr[j], acc))

\* coordinates += atomco_dict[atom] ... for atom in atoms
RECURSIVE Flatten(_, _)
Flatten(order, dict) ==
    IF order = <<>> THEN <<>>
    ELSE dict[Head(order)] \o Flatten(Tail(order), dict)

\* what get_atom_info assigns to the object
GetAtomInfo(tr) ==
    LET acc == ScanAtoms(tr, 1, NoAtoms)
        names == Flatten(acc.atoms, acc.atom_name_dict)
    IN  [ntot |-> Len(names),
         atoms_num |-> [k \in 1..Len(acc.atoms) |-> acc.natoms_dict[acc.atoms[k]]],
         atoms |-> acc.atoms,
         tf |-> Flatten(acc.atoms, acc.tf_dict),
         tf_dict |-> acc.tf_dict,
         atom_names |-> names,
         atom_names_dict |-> acc.atom_name_dict,
         data |-> Flatten(acc.atoms, acc.atomco_dict),
         atomco_dict |-> acc.atomco_dict]

\* ---------------------------------------------------------------- get_bases
BaseAttrs == <<"AVector", "BVector", "CVector">>

GetBases(tr) ==
    IF IterTag(tr, "SpaceGroup") = {} THEN <<>>
    ELSE LET elem == tr[Min(IterTag(tr, "SpaceGroup"))]
         IN  [a \in 1..3 |-> ParseVec(elem.attrib[BaseAttrs[a]])]

\* ------------------------------------------------------------ get_name_info
fieldnames == <<"energy", "force", "magnetism", "path">>

Last(s) == s[Len(s)]

\* the loop over zip(fieldnames, info.split()); st.failed: an exception left it
RECURSIVE NameLoop(_, _, _)
NameLoop(tokens, i, st) ==
    IF i > Len(fieldnames) \/ i > Len(tokens) THEN st
    ELSE LET key == fieldnames[i]
             v == Strip(Last(tokens[i]))
         IN  IF key # "path"
             THEN IF IsFloatStr(v)
                  THEN NameLoop(tokens, i + 1, [st EXCEPT ![key] = <<Float(v)>>])
                  ELSE [st EXCEPT !.failed = TRUE]
             ELSE NameLoop(tokens, i + 1, [st EXCEPT !.path = <<v>>])

\* get_name_info on an object whose scalar fields are `prior`:
\* the fields afterwards and the exception that left it ("ok": none)
GetNameInfo(tr, prior) ==
    LET ss == IterTag(tr, "SymmetrySystem")
        st0 == [energy |-> prior.energy, force |-> prior.force,
                magnetism |-> prior.magnetism, path |-> prior.path,
                failed |-> FALSE]
    IN  IF ss # {} /\ ~Has(tr[Min(ss)], "Name")
        THEN [energy |-> prior.energy, force |-> prior.force,
              magnetism |-> prior.magnetism, path |-> prior.path,
              raised |-> "KeyError"]
        ELSE IF ss = {}
        THEN \* info is unbound: the UnboundLocalError is caught, the handler formats
             \* info and raises it again; finally sets path
             [energy |-> <<0>>, force |-> <<0>>, magnetism |-> <<0>>,
              path |-> <<Cwd>>, raised |-> "UnboundLocalError"]
        ELSE LET st == NameLoop(tr[Min(ss)].attrib["Name"], 1, st0)
             IN  [energy |-> IF st.failed THEN <<0>> ELSE st.energy,
                  force |-> IF st.failed THEN <<0>> ELSE st.force,
                  magnetism |-> IF st.failed THEN <<0>> ELSE st.magnetism,
                  path |-> <<Cwd>>, raised |-> "ok"]

Unset == [energy |-> <<>>, force |-> <<>>, magnetism |-> <<>>, path |-> <<>>]


\* ------------------------------------------------------------------- update

\* update's checks of the array lengths: the message of the UnmatchedDataShape
\* it raises, "" when it raises none
ShapeErrorDataOnly(n, d, t, names) ==
    IF n # Len(d) THEN "length of data is not equal to atom number." ELSE ""

ShapeError(n, d, t, names) ==
    IF n # Len(d) THEN "length of data is not equal to atom number."
    ELSE IF n # Len(t) THEN "length of tf is not equal to atom number."
    ELSE IF n # Len(names) THEN "length of atom names is not equal to atom number."
    ELSE ""

RP == "RestrictedProperties"

\* a marker write that sets the attribute whether or not it is there
WriteMarkerAlways(elem, tfv) ==
    IF tfv = FFF THEN SetAttr(elem, RP, "FractionalXYZ")
    ELSE IF tfv = TTT /\ Has(elem, RP) THEN [elem EXCEPT !.attrib = Pop(@, RP)]
    ELSE elem

\* the T&F part of update_atoms for one element; tf == 'F,F,F' compares the
\* comma-joined flags
WriteMarker(elem, tfv) ==
    IF tfv = FFF
    THEN IF ~Has(elem, RP) THEN SetAttr(elem, RP, "FractionalXYZ") ELSE elem
    ELSE IF tfv = TTT
    THEN IF Has(elem, RP) THEN [elem EXCEPT !.attrib = Pop(@, RP)] ELSE elem
    ELSE elem

\* the body of update_atoms for one matching element and index idx (0-based):
\* the element afterwards and the exception raised on the way
WriteAtom(elem, idx, co, tfs, nms) ==
    IF idx + 1 > Len(co) THEN [elem |-> elem, raised |-> "IndexError"]
    ELSE LET e1 == SetAttr(elem, "XYZ", JoinVec(co[idx + 1]))
         IN  IF idx + 1 > Len(tfs) THEN [elem |-> e1, raised |-> "IndexError"]
             ELSE LET e2 == WriteMarker(e1, tfs[idx + 1])
                  IN  IF idx + 1 > Len(nms)
                      THEN [elem |-> e2, raised |-> "IndexError"]
                      ELSE [elem |-> SetAttr(e2, "Name", nms[idx + 1]),
                            raised |-> "ok"]

\* the inner loop of update_atoms: the elements of one species
RECURSIVE WalkSpecies(_, _, _, _, _, _, _)
WalkSpecies(tr, atom, j, idx, co, tfs, nms) ==
    IF j > Len(tr) THEN [tree |-> tr, raised |-> "ok"]
    ELSE IF tr[j].tag = "Atom3d" /\ Has(tr[j], "XYZ")
            /\ tr[j].attrib["Components"] = atom
    THEN LET w == WriteAtom(tr[j], idx, co, tfs, nms)
             tr2 == [tr EXCEPT ![j] = w.elem]
         IN  IF w.raised # "ok" THEN [tree |-> tr2, raised |-> w.raised]
             ELSE WalkSpecies(tr2, atom, j + 1, idx + 1, co, tfs, nms)
    ELSE WalkSpecies(tr, atom, j + 1, idx, co, tfs, nms)

\* the outer loop of update_atoms: for atom in self.atoms
RECURSIVE UpdateAtomsFrom(_, _, _, _, _, _)
UpdateAtomsFrom(tr, order, k, cod, tfd, nmd) ==
    IF k > Len(order) THEN [tree |-> tr, raised |-> "ok"]
    ELSE LET atom == order[k]
         IN  IF atom \notin DOMAIN cod
             THEN IF \E j \in IterTag(tr, "Atom3d") :
                         Has(tr[j], "XYZ") /\ tr[j].attrib["Components"] = atom
                  THEN [tree |-> tr, raised |-> "KeyError"]
                  ELSE UpdateAtomsFrom(tr, order, k + 1, cod, tfd, nmd)
             ELSE LET r == WalkSpecies(tr, atom, 1, 0, cod[atom], tfd[atom], nmd[atom])
                  IN  IF r.raised # "ok" THEN r
                      ELSE UpdateAtomsFrom(r.tree, order, k + 1, cod, tfd, nmd)

UpdateAtoms(tr, order, cod, tfd, nmd) == UpdateAtomsFrom(tr, order, 1, cod, tfd, nmd)

\* an update_bases without the break: every SpaceGroup element is written
UpdateBasesEvery(tr, bs) ==
    IF IterTag(tr, "SpaceGroup") = {} \/ Len(bs) < 3
    THEN [tree |-> tr, raised |-> IF IterTag(tr, "SpaceGroup") = {} THEN "ok" ELSE "IndexError"]
    ELSE [tree |->
            [j \in 1..Len(tr) |->
                IF tr[j].tag = "SpaceGroup"
                THEN SetAttr(SetAttr(SetAttr(tr[j], "AVector", JoinVec(bs[1])),
                                     "BVector", JoinVec(bs[2])),
                             "CVector", JoinVec(bs[3]))
                ELSE tr[j]],
          raised |-> "ok"]

\* update_bases: the first SpaceGroup element gets the three vectors
UpdateBases(tr, bs) ==
    IF IterTag(tr, "SpaceGroup") = {} THEN [tree |-> tr, raised |-> "ok"]
    ELSE LET j == Min(IterTag(tr, "SpaceGroup"))
             e1 == IF Len(bs) >= 1 THEN SetAttr(tr[j], "AVector", JoinVec(bs[1])) ELSE tr[j]
             e2 == IF Len(bs) >= 2 THEN SetAttr(e1, "BVector", JoinVec(bs[2])) ELSE e1
             e3 == IF Len(bs) >= 3 THEN SetAttr(e2, "CVector", JoinVec(bs[3])) ELSE e2
         IN  [tree |-> [tr EXCEPT ![j] = e3],
              raised |-> IF Len(bs) >= 3 THEN "ok" ELSE "IndexError"]

\* "E:<energy> F:<force> M:<magnetism> P:<path>", as tokens
EncodeName(e, f, m) ==
    << <<"E", Str(e)>>, <<"F", Str(f)>>, <<"M", Str(m)>>, <<"P", Cwd>> >>

\* update_name: getattr raises AttributeError on a field never assigned
UpdateName(tr, e, f, m) ==
    IF e = <<>> \/ f = <<>> \/ m = <<>>
    THEN [tree |-> tr, raised |-> "AttributeError"]
    ELSE IF IterTag(tr, "SymmetrySystem") = {} THEN [tree |-> tr, raised |-> "ok"]
    ELSE LET j == Min(IterTag(tr, "SymmetrySystem"))
         IN  [tree |-> [tr EXCEPT ![j] = SetAttr(@, "Name", EncodeName(e[1], f[1], m[1]))],
              raised |-> "ok"]

\* update() on the object o (a record of its attributes) and the tree tr
UpdateTree(tr, o) ==
    IF ShapeError(o.ntot, o.data, o.tf, o.atom_names) # ""
    THEN [tree |-> tr, raised |-> "UnmatchedDataShape"]
    ELSE LET a == UpdateAtoms(tr, o.atoms, o.atomco_dict, o.tf_dict, o.atom_names_dict)
         IN  IF a.raised # "ok" THEN a
             ELSE LET b == UpdateBases(a.tree, o.bases)
                  IN  IF b.raised # "ok" THEN b
                      ELSE UpdateName(b.tree, o.energy, o.force, o.magnetism)

\* ------------------------------------------------------------- modify_color

\* sum(atoms_num[: i+1])
RECURSIVE SumTo(_, _)
SumTo(nums, i) == IF i = 0 THEN 0 ELSE nums[i] + SumTo(nums, i - 1)

\* atoms_num_sum, over range(len(self.atoms))
AtomsNumSum(order, nums) == [i \in 1..Len(order) |-> SumTo(nums, i)]

\* a bucket search that falls back to the last bucket
ColorBucketClamped(sums, n) ==
    IF \E i \in 1..Len(sums) : n <= sums[i]
    THEN Min({i \in 1..Len(sums) : n <= sums[i]})
    ELSE Len(sums)

\* atom_idx + 1 after the search loop; 0: the loop never assigned atom_idx
ColorBucket(sums, n) ==
    IF \E i \in 1..Len(sums) : n <= sums[i]
    THEN Min({i \in 1..Len(sums) : n <= sums[i]})
    ELSE 0

\* atoms_num_sum[atom_idx-1]: index -1 is the last entry
SumBefore(sums, b) == IF b = 1 THEN sums[Len(sums)] ELSE sums[b - 1]

\* '%d,%d,%d, 255' % color
ColorAttr(color) == color \o <<" 255">>

\* the walk of modify_color: the type_atom_number-th element of atom_type
RECURSIVE ColorWalk(_, _, _, _, _, _)
ColorWalk(tr, j, i, atom_type, type_atom_number, color_attr) ==
    IF j > Len(tr) THEN tr
    ELSE IF tr[j].tag = "Atom3d" /\ Has(tr[j], "XYZ")
            /\ tr[j].attrib["Components"] = atom_type
    THEN IF i + 1 = type_atom_number
         THEN [tr EXCEPT ![j] = SetAttr(@, "Color", color_attr)]
         ELSE ColorWalk(tr, j + 1, i + 1, atom_type, type_atom_number, color_attr)
    ELSE ColorWalk(tr, j + 1, i, atom_type, type_atom_number, color_attr)

\* modify_color(atom_number, color)
ModifyColorTree(tr, order, nums, atom_number, color) ==
    LET sums == AtomsNumSum(order, nums)
        b == ColorBucket(sums, atom_number)
    IN  IF b = 0 THEN [tree |-> tr, raised |-> "UnboundLocalError"]
        ELSE [tree |-> ColorWalk(tr, 1, 0, order[b],
                                 atom_number - SumBefore(sums, b), ColorAttr(color)),
              raised |-> "ok"]


\* -------------------------------------------------------------------- state

VARIABLES
    tree,             \* self.tree: the elements in document order
    ntot, atoms, atoms_num,
    data, tf, atom_names,                        \* the flattened arrays
    atomco_dict, tf_dict, atom_names_dict,       \* the per-species lists
    bases,
    energy, force, magnetism, path,
    written,          \* the files tofile has written: <<>> or <<the tree>>
    last,             \* the last call: [op, n]
    result,           \* how it ended: "ok" or the exception raised
    first,            \* what load() read from the document
    edits,            \* assignments the caller has made to the arrays
    lines, pos, collecting, coords, frames       \* ArcFile.coords_iterator

xsdvars == <<tree, ntot, atoms, atoms_num, data, tf, atom_names, atomco_dict,
             tf_dict, atom_names_dict, bases, energy, force, magnetism, path,
             written, first, edits>>
arcvars == <<lines, pos, collecting, coords, frames>>
vars == <<xsdvars, arcvars, last, result>>

\* the attributes of the object that update() reads
Obj ==
    [ntot |-> ntot, atoms |-> atoms, atoms_num |-> atoms_num, data |-> data,
     tf |-> tf, atom_names |-> atom_names, atomco_dict |-> atomco_dict,
     tf_dict |-> tf_dict, atom_names_dict |-> atom_names_dict, bases |-> bases,
     energy |-> energy, force |-> force, magnetism |-> magnetism]

\* what load() reads of the atoms and the lattice
Extract(tr) == [info |-> GetAtomInfo(tr), bases |-> GetBases(tr)]

\* the same, as the object holds it now
Held ==
    [info |-> [ntot |-> ntot, atoms_num |-> atoms_num, atoms |-> atoms, tf |-> tf,
               tf_dict |-> tf_dict, atom_names |-> atom_names,
               atom_names_dict |-> atom_names_dict, data |-> data,
               atomco_dict |-> atomco_dict],
     bases |-> bases]

\* ---------------------------------------------------------------- documents

Root == [tag |-> "XSD", attrib |-> [Version |-> "4.4", WrittenBy |-> "MS"]]

\* an Atom3d element without coordinates: not an atom of the structure
Ghost == [tag |-> "Atom3d", attrib |-> [Components |-> "A", Name |-> "ghost"]]

AtomTemplates ==
    { [tag |-> "Atom3d",
       attrib |-> [Components |-> "A", XYZ |-> <<"0.5", "0.50", "1">>,
                   Name |-> "A1", ID |-> "7"]],
      [tag |-> "Atom3d",
       attrib |-> [Components |-> "A", XYZ |-> <<" 0.5 ", "0", "1.0">>,
                   RestrictedProperties |-> "FractionalXYZ"]],
      [tag |-> "Atom3d",
       attrib |-> [Components |-> "B", XYZ |-> <<"1", "1", "0.0">>,
                   RestrictedProperties |-> "XYZ", Name |-> "",
                   Color |-> <<"0", "0", "0", "255">>]] }

SpaceGroups ==
    << [tag |-> "SpaceGroup",
        attrib |-> [AVector |-> <<"1.0", "0", "0">>, BVector |-> <<"0", "1", "0">>,
                    CVector |-> <<"0", "0", " 0.5 ">>, Name |-> "P1"]],
       [tag |-> "SpaceGroup",
        attrib |-> [AVector |-> <<"0", "0", "0">>, BVector |-> <<"0", "0", "0">>,
                    CVector |-> <<"0", "0", "0">>, Name |-> "P1"]] >>

\* the metadata strings of the documents: "E:-1.5 F:0.50 M:0 P:/old" and ""
NameStrings ==
    { << <<"E", "-1.5">>, <<"F", "0.50">>, <<"M", "0">>, <<"P", "/old">> >>,
      <<>> }

SymmetrySystems(info) ==
    << [tag |-> "SymmetrySystem", attrib |-> [Name |-> info, ID |-> "3"]],
       [tag |-> "SymmetrySystem", attrib |-> [Name |-> << <<"other">> >>]] >>

AtomSeqs == UNION {[1..n -> AtomTemplates] : n \in 0..MaxAtoms}

\* load(): the root gets WrittenBy="VASPy"
LoadRoot(tr) == [tr EXCEPT ![1] = SetAttr(@, "WrittenBy", "VASPy")]

NoArc ==
    /\ lines = <<>>
    /\ pos = 0
    /\ collecting = FALSE
    /\ coords = <<>>
    /\ frames = <<>>

\* an XsdFile constructed from a document: __init__ has run load()
Init ==
    \E as \in AtomSeqs, info \in NameStrings :
        LET tr == LoadRoot(<<Root, Ghost>> \o as \o SpaceGroups \o SymmetrySystems(info))
            a == GetAtomInfo(tr)
            nm == GetNameInfo(tr, Unset)
        IN  /\ nm.raised = "ok"
            /\ tree = tr
            /\ ntot = a.ntot
            /\ atoms = a.atoms
            /\ atoms_num = a.atoms_num
            /\ data = a.data
            /\ tf = a.tf
            /\ atom_names = a.atom_names
            /\ atomco_dict = a.atomco_dict
            /\ tf_dict = a.tf_dict
            /\ atom_names_dict = a.atom_names_dict
            /\ bases = GetBases(tr)
            /\ energy = nm.energy
            /\ force = nm.force
            /\ magnetism = nm.magnetism
            /\ path = nm.path
            /\ written = <<>>
            /\ last = [op |-> "load", n |-> 0]
            /\ result = "ok"
            /\ first = Extract(tr)
            /\ edits = 0
            /\ NoArc

\* ------------------------------------------------------- the caller's edits
Moved == <<10, 10, 10>>
Flags == {TTT, FFF, <<"T", "T", "F">>}

Edited ==
    /\ edits < MaxEdits
    /\ edits' = edits + 1
    /\ last' = [op |-> "edit", n |-> 0]
    /\ result' = "ok"
    /\ UNCHANGED <<tree, ntot, atoms, atoms_num, energy, force, magnetism, path,
                   written, first, arcvars>>

\* xsd.data[i] = ...
EditData ==
    /\ \E i \in 1..Len(data) : data' = [data EXCEPT ![i] = Moved]
    /\ Edited
    /\ UNCHANGED <<tf, atom_names, atomco_dict, tf_dict, atom_names_dict, bases>>

\* xsd.tf[i] = ...
EditTf ==
    /\ \E i \in 1..Len(tf), f \in {TTT, FFF} : tf' = [tf EXCEPT ![i] = f]
    /\ Edited
    /\ UNCHANGED <<data, atom_names, atomco_dict, tf_dict, atom_names_dict, bases>>

\* xsd.atom_names[i] = ...
EditAtomNames ==
    /\ \E i \in 1..Len(atom_names) : atom_names' = [atom_names EXCEPT ![i] = "renamed"]
    /\ Edited
    /\ UNCHANGED <<data, tf, atomco_dict, tf_dict, atom_names_dict, bases>>

\* xsd.atomco_dict[atom][idx] = ...
EditAtomcoDict ==
    /\ \E s \in DOMAIN atomco_dict : \E i \in 1..Len(atomco_dict[s]) :
           atomco_dict' = [atomco_dict EXCEPT ![s][i] = Moved]
    /\ Edited
    /\ UNCHANGED <<data, tf, atom_names, tf_dict, atom_names_dict, bases>>

\* xsd.tf_dict[atom][idx] = ...
EditTfDict ==
    /\ \E s \in DOMAIN tf_dict : \E i \in 1..Len(tf_dict[s]), f \in Flags :
           tf_dict' = [tf_dict EXCEPT ![s][i] = f]
    /\ Edited
    /\ UNCHANGED <<data, tf, atom_names, atomco_dict, atom_names_dict, bases>>

\* xsd.atom_names_dict[atom][idx] = ...
EditAtomNamesDict ==
    /\ \E s \in DOMAIN atom_names_dict : \E i \in 1..Len(atom_names_dict[s]) :
           atom_names_dict' = [atom_names_dict EXCEPT ![s][i] = "renamed"]
    /\ Edited
    /\ UNCHANGED <<data, tf, atom_names, atomco_dict, tf_dict, bases>>

\* xsd.data = xsd.data[:-1]
TruncateData ==
    /\ Len(data) > 0
    /\ data' = SubSeq(data, 1, Len(data) - 1)
    /\ Edited
    /\ UNCHANGED <<tf, atom_names, atomco_dict, tf_dict, atom_names_dict, bases>>

\* xsd.tf = xsd.tf[:-1]
TruncateTf ==
    /\ Len(tf) > 0
    /\ tf' = SubSeq(tf, 1, Len(tf) - 1)
    /\ Edited
    /\ UNCHANGED <<data, atom_names, atomco_dict, tf_dict, atom_names_dict, bases>>

\* xsd.atom_names = xsd.atom_names[:-1]
TruncateAtomNames ==
    /\ Len(atom_names) > 0
    /\ atom_names' = SubSeq(atom_names, 1, Len(atom_names) - 1)
    /\ Edited
    /\ UNCHANGED <<data, tf, atomco_dict, tf_dict, atom_names_dict, bases>>

\* xsd.bases[0] = ...
EditBases ==
    /\ Len(bases) > 0
    /\ bases' = [bases EXCEPT ![1] = Moved]
    /\ Edited
    /\ UNCHANGED <<data, tf, atom_names, atomco_dict, tf_dict, atom_names_dict>>

\* ------------------------------------------------------------ the operations
memvars == <<ntot, atoms, atoms_num, data, tf, atom_names, atomco_dict, tf_dict,
             atom_names_dict, bases, energy, force, magnetism, path, first, edits>>

\* xsd.update()
Update ==
    LET r == UpdateTree(tree, Obj)
    IN  /\ tree' = r.tree
        /\ result' = r.raised
        /\ last' = [op |-> "update", n |-> 0]
        /\ UNCHANGED <<memvars, written, arcvars>>

\* xsd.tofile(): update(), then tree.write(filename)
Tofile ==
    LET r == UpdateTree(tree, Obj)
    IN  /\ tree' = r.tree
        /\ result' = r.raised
        /\ written' = IF r.raised = "ok" THEN <<r.tree>> ELSE written
        /\ last' = [op |-> "tofile", n |-> 0]
        /\ UNCHANGED <<memvars, arcvars>>

Orange == <<"255", "117", "51">>

\* xsd.modify_color(n)
ModifyColor ==
    \E n \in 1..(ntot + 1) :
        LET r == ModifyColorTree(tree, atoms, atoms_num, n, Orange)
        IN  /\ tree' = r.tree
            /\ result' = r.raised
            /\ last' = [op |-> "modify_color", n |-> n]
            /\ UNCHANGED <<memvars, written, arcvars>>

\* load -> edits of the per-species lists -> update
Next ==
    \/ EditAtomcoDict
    \/ EditTfDict
    \/ EditAtomNamesDict
    \/ EditBases
    \/ Update

Spec == Init /\ [][Next]_vars

\* load -> edits of the flattened arrays -> update, tofile
NextArrays ==
    \/ EditData
    \/ EditTf
    \/ EditAtomNames
    \/ TruncateData
    \/ TruncateTf
    \/ TruncateAtomNames
    \/ Update
    \/ Tofile

SpecArrays == Init /\ [][NextArrays]_vars

\* load -> modify_color, update
NextColor ==
    \/ ModifyColor
    \/ Update

SpecColor == Init /\ [][NextColor]_vars


\* ------------------------------------------------- load, at get_name_info

\* the tokens of the metadata strings
NameTokens ==
    { <<"E", "-1.5">>, <<"F", "0.50">>, <<"M", "1">>, <<"P", "/old">>,
      <<"junk">>, <<"0.5">> }

NameInfoStrings == UNION {[1..n -> NameTokens] : n \in 0..MaxTokens}

\* documents with a symmetry element that holds a metadata string, one whose
\* symmetry element has no Name attribute, and one with no symmetry element
MetaDocs ==
    {<<Root, [tag |-> "SymmetrySystem", attrib |-> [Name |-> info, ID |-> "3"]]>> :
        info \in NameInfoStrings}
    \cup {<<Root, [tag |-> "SymmetrySystem", attrib |-> [ID |-> "3"]]>>, <<Root>>}

\* load() has run get_atom_info and get_bases and is about to run
\* get_name_info
InitMeta ==
    \E doc \in MetaDocs :
        LET tr == LoadRoot(doc)
            a == GetAtomInfo(tr)
        IN  /\ tree = tr
            /\ ntot = a.ntot
            /\ atoms = a.atoms
            /\ atoms_num = a.atoms_num
            /\ data = a.data
            /\ tf = a.tf
            /\ atom_names = a.atom_names
            /\ atomco_dict = a.atomco_dict
            /\ tf_dict = a.tf_dict
            /\ atom_names_dict = a.atom_names_dict
            /\ bases = GetBases(tr)
            /\ energy = <<>>
            /\ force = <<>>
            /\ magnetism = <<>>
            /\ path = <<>>
            /\ written = <<>>
            /\ last = [op |-> "get_bases", n |-> 0]
            /\ result = "ok"
            /\ first = Extract(tr)
            /\ edits = 0
            /\ NoArc

\* self.get_name_info()
LoadNameInfo ==
    /\ last.op = "get_bases"
    /\ LET r == GetNameInfo(tree, [energy |-> energy, force |-> force,
                                   magnetism |-> magnetism, path |-> path])
       IN  /\ energy' = r.energy
           /\ force' = r.force
           /\ magnetism' = r.magnetism
           /\ path' = r.path
           /\ result' = r.raised
    /\ last' = [op |-> "get_name_info", n |-> 0]
    /\ UNCHANGED <<tree, ntot, atoms, atoms_num, data, tf, atom_names, atomco_dict,
                   tf_dict, atom_names_dict, bases, written, first, edits, arcvars>>

SpecMeta == InitMeta /\ [][LoadNameInfo]_vars

\* ------------------------------------------------- ArcFile.coords_iterator

\* the lines of the trajectory files
ArcLines ==
    { "PBC 1.0 1.0 1.0 0.5 0.5 0.5", "PBC=ON", "  end", "C 0.5 1.0 0 XXXX",
      "O 0 0 0.5", "!DATE Mon" }

\* line.strip()
LineStrip(line) == IF line = "  end" THEN "end" ELSE line

\* line.startswith("PBC ")
StartsWithPBC(line) == line = "PBC 1.0 1.0 1.0 0.5 0.5 0.5"

\* line.startswith("end")
StartsWithEnd(line) == line = "end"

\* str2list(line): the whitespace-separated tokens of the line
Str2list(line) ==
    CASE line = "PBC 1.0 1.0 1.0 0.5 0.5 0.5" ->
             <<"PBC", "1.0", "1.0", "1.0", "0.5", "0.5", "0.5">>
      [] line = "PBC=ON" -> <<"PBC=ON">>
      [] line = "end" -> <<"end">>
      [] line = "C 0.5 1.0 0 XXXX" -> <<"C", "0.5", "1.0", "0", "XXXX">>
      [] line = "O 0 0 0.5" -> <<"O", "0", "0", "0.5">>
      [] line = "!DATE Mon" -> <<"!DATE", "Mon">>
      [] OTHER -> <<>>

\* line_list[1: 4]
Slice14(line_list) ==
    IF Len(line_list) < 2 THEN <<>>
    ELSE SubSeq(line_list, 2, IF Len(line_list) < 4 THEN Len(line_list) ELSE 4)

ArcFiles == UNION {[1..n -> ArcLines] : n \in 0..MaxLines}

\* an ArcFile whose coords_iterator has been created and not yet advanced;
\* pos lines have been read, frames are the arrays yielded so far
InitArc ==
    /\ lines \in ArcFiles
    /\ pos = 0
    /\ collecting = FALSE
    /\ coords = <<>>
    /\ frames = <<>>
    /\ tree = <<>>
    /\ ntot = 0
    /\ atoms = <<>>
    /\ atoms_num = <<>>
    /\ data = <<>>
    /\ tf = <<>>
    /\ atom_names = <<>>
    /\ atomco_dict = EmptyDict
    /\ tf_dict = EmptyDict
    /\ atom_names_dict = EmptyDict
    /\ bases = <<>>
    /\ energy = <<>>
    /\ force = <<>>
    /\ magnetism = <<>>
    /\ path = <<>>
    /\ written = <<>>
    /\ last = [op |-> "coords_iterator", n |-> 0]
    /\ result = "ok"
    /\ first = Extract(<<>>)
    /\ edits = 0

\* the line the loop is at, stripped
ArcLine == LineStrip(lines[pos + 1])

ArcReading == pos < Len(lines) /\ result = "ok"

ArcKeep == UNCHANGED <<lines, xsdvars, last>>

\* if not collecting and line.startswith("PBC ")
ArcStart ==
    /\ ArcReading
    /\ ~collecting /\ StartsWithPBC(ArcLine)
    /\ collecting' = TRUE
    /\ pos' = pos + 1
    /\ UNCHANGED <<coords, frames, result>>
    /\ ArcKeep

\* an end branch that keeps the rows collected so far
ArcEndKeepsRows ==
    /\ ArcReading
    /\ collecting /\ StartsWithEnd(ArcLine)
    /\ collecting' = FALSE
    /\ frames' = Append(frames, coords)
    /\ pos' = pos + 1
    /\ UNCHANGED <<coords, result>>
    /\ ArcKeep

\* elif collecting and line.startswith("end"): yield np.array(coords)
ArcEnd ==
    /\ ArcReading
    /\ collecting /\ StartsWithEnd(ArcLine)
    /\ collecting' = FALSE
    /\ frames' = Append(frames, coords)
    /\ coords' = <<>>
    /\ pos' = pos + 1
    /\ UNCHANGED result
    /\ ArcKeep

\* elif collecting: a row of floats, or the ValueError of float()
ArcCollect ==
    /\ ArcReading
    /\ collecting /\ ~StartsWithEnd(ArcLine)
    /\ LET cs == Slice14(Str2list(ArcLine))
       IN  IF \A c \in 1..Len(cs) : IsFloatStr(cs[c])
           THEN /\ coords' = Append(coords, [c \in 1..Len(cs) |-> Float(cs[c])])
                /\ result' = "ok"
           ELSE /\ coords' = coords
                /\ result' = "ValueError"
    /\ pos' = pos + 1
    /\ UNCHANGED <<collecting, frames>>
    /\ ArcKeep

\* no branch is taken
ArcSkip ==
    /\ ArcReading
    /\ ~collecting /\ ~StartsWithPBC(ArcLine)
    /\ pos' = pos + 1
    /\ UNCHANGED <<collecting, coords, frames, result>>
    /\ ArcKeep

NextArc ==
    \/ ArcStart
    \/ ArcEnd
    \/ ArcCollect
    \/ ArcSkip

SpecArc == InitArc /\ [][NextArc]_vars

\* ============================================================ the claims

\* the positions of the atom elements of species s: Atom3d elements that
\* carry a coordinate attribute, in document order
AtomPositions(tr, s) ==
    {j \in 1..Len(tr) : tr[j].tag = "Atom3d" /\ Has(tr[j], "XYZ")
                        /\ tr[j].attrib["Components"] = s}

\* the i-th smallest member of S, i from 1
Nth(S, i) == CHOOSE j \in S : Cardinality({x \in S : x < j}) = i - 1

\* the rank of the atom element at j among those of its species, from 1
RankOf(tr, j) ==
    Cardinality({x \in AtomPositions(tr, tr[j].attrib["Components"]) : x <= j})

\* the counts of the species before the k-th
CountBefore(k) == SumTo(atoms_num, k - 1)

ShapeMismatch == ntot # Len(data) \/ ntot # Len(tf) \/ ntot # Len(atom_names)

\* C1: round trip. After update() on an object whose arrays are as load()
\* left them, reading the document again gives the species order, the counts,
\* every atom's coordinate, freeze flags and display name, and the three axis
\* vectors that the first load gave.
C1_RoundTrip ==
    (last.op = "update" /\ Held = first) => Extract(tree) = first

\* an update of unedited arrays has rewritten a document of three atoms of two
\* species, one of them without a name attribute before
C1_Witness ==
    /\ last.op = "update"
    /\ result = "ok"
    /\ Held = first
    /\ ntot = 3
    /\ Len(atoms) = 2
    /\ \E j \in 1..Len(tree) :
          /\ tree[j].tag = "Atom3d"
          /\ Has(tree[j], "XYZ")
          /\ tree[j].attrib["Name"] = "A_custom"
          /\ tree[j].attrib["XYZ"] = <<"0.5", "0.0", "1.0">>

\* C2: after a successful update(), the i-th atom element of the k-th species
\* carries the coordinate, the freeze state and the display name held at row
\* (counts of the species before) + i of the flattened arrays.
C2_UpdatePushesArrays ==
    (last.op = "update" /\ result = "ok") =>
        \A k \in 1..Len(atoms) : \A i \in 1..atoms_num[k] :
            LET elem == tree[Nth(AtomPositions(tree, atoms[k]), i)]
                row == CountBefore(k) + i
            IN  /\ ParseVec(elem.attrib["XYZ"]) = data[row]
                /\ (tf[row] = FFF => Has(elem, RP))
                /\ (tf[row] = TTT => ~Has(elem, RP))
                /\ elem.attrib["Name"] = atom_names[row]

\* the attributes update() may write: of the tree t, element j, attribute k
Writable(t, j, k) ==
    \/ t[j].tag = "Atom3d" /\ Has(t[j], "XYZ") /\ k \in {"XYZ", RP, "Name"}
    \/ /\ t[j].tag = "SpaceGroup"
       /\ \A x \in 1..(j - 1) : t[x].tag # "SpaceGroup"
       /\ k \in {"AVector", "BVector", "CVector"}
    \/ /\ t[j].tag = "SymmetrySystem"
       /\ \A x \in 1..(j - 1) : t[x].tag # "SymmetrySystem"
       /\ k = "Name"

Frame(t, u) ==
    /\ Len(u) = Len(t)
    /\ \A j \in 1..Len(t) :
          /\ u[j].tag = t[j].tag
          /\ \A k \in (DOMAIN t[j].attrib) \cup (DOMAIN u[j].attrib) :
                Writable(t, j, k) \/
                    /\ k \in DOMAIN t[j].attrib
                    /\ k \in DOMAIN u[j].attrib
                    /\ u[j].attrib[k] = t[j].attrib[k]

\* C3: frame of update(). A call changes nothing but the coordinate, marker
\* and name attributes of atom elements that carry a coordinate, the three
\* axis vectors of the first lattice-group element and the metadata attribute
\* of the first symmetry element; no element is added or removed.
C3_UpdateFrame == [][last'.op = "update" => Frame(tree, tree')]_vars

\* an update has changed the document read at load, in a document that holds
\* an atom element with a colour
C3_Witness ==
    /\ last.op = "update"
    /\ result = "ok"
    /\ edits = 1
    /\ Extract(tree) # first
    /\ \E j \in 1..Len(tree) : Has(tree[j], "Color")

\* C4: shape check before any write. When ntot differs from the length of
\* the coordinate, freeze-flag or display-name array, update() and tofile()
\* end with the shape-mismatch error, the document is as it was, and tofile()
\* writes no file.
C4_ShapeCheckFirst ==
    [][(last'.op \in {"update", "tofile"} /\ ShapeMismatch) =>
          /\ result' = "UnmatchedDataShape"
          /\ tree' = tree
          /\ written' = written]_vars

\* tofile() was refused for a freeze-flag array one row short, the coordinate
\* array being whole
C4_Witness ==
    /\ last.op = "tofile"
    /\ result = "UnmatchedDataShape"
    /\ Len(data) = ntot
    /\ Len(tf) = ntot - 1
    /\ written = <<>>

\* the bucket of the 1-based atom index n: the first whose cumulative count
\* reaches n
BucketOf(n) == Min({b \in 1..Len(atoms_num) : n <= SumTo(atoms_num, b)})

\* the atom element index n names
ColorTarget(t, n) ==
    Nth(AtomPositions(t, atoms[BucketOf(n)]), n - CountBefore(BucketOf(n)))

\* C5: colour index resolution. For 1 <= n <= ntot, modify_color(n, rgb) sets
\* the colour attribute of the r-th atom element of the species of bucket b,
\* b the first bucket whose cumulative count reaches n and r = n minus the
\* counts before b, and changes nothing else.
C5_ColorResolves ==
    [][(last'.op = "modify_color" /\ last'.n \in 1..ntot) =>
          tree' = [tree EXCEPT ![ColorTarget(tree, last'.n)] =
                                    SetAttr(@, "Color", ColorAttr(Orange))]]_vars

FlagsAt(t, j) == tf_dict[t[j].attrib["Components"]][RankOf(t, j)]

IsAtom(t, j) == t[j].tag = "Atom3d" /\ Has(t[j], "XYZ")

\* C9: freeze-flag toggle, over any sequence of updates. After an update in
\* which an atom's flags are all-fixed its element carries the restriction
\* marker, a marker already there keeping its value; after an update in which
\* they are all-free it carries none.
C9_MarkerToggle ==
    [][(last'.op = "update" /\ result' = "ok") =>
          \A j \in 1..Len(tree) : IsAtom(tree, j) =>
              /\ FlagsAt(tree, j) = FFF =>
                    /\ Has(tree'[j], RP)
                    /\ Has(tree[j], RP) => tree'[j].attrib[RP] = tree[j].attrib[RP]
              /\ FlagsAt(tree, j) = TTT => ~Has(tree'[j], RP)]_vars

\* an atom fixed at load has been set free and updated, and lost its marker,
\* while another kept a marker of its own value
C9_Witness ==
    /\ last.op = "update"
    /\ result = "ok"
    /\ \E j \in 1..Len(tree) :
          /\ IsAtom(tree, j)
          /\ FlagsAt(tree, j) = TTT
          /\ first.info.tf_dict[tree[j].attrib["Components"]][RankOf(tree, j)] = FFF
          /\ ~Has(tree[j], RP)
    /\ \E j \in 1..Len(tree) :
          /\ IsAtom(tree, j)
          /\ FlagsAt(tree, j) = FFF
          /\ Has(tree[j], RP)
          /\ tree[j].attrib[RP] = "XYZ"


\* the metadata string get_name_info read
InfoString == tree[Min(IterTag(tree, "SymmetrySystem"))].attrib["Name"]

HasInfoString ==
    /\ IterTag(tree, "SymmetrySystem") # {}
    /\ Has(tree[Min(IterTag(tree, "SymmetrySystem"))], "Name")

\* a Key:value token with a key of the table
IsKeyValue(t) == Len(t) = 2 /\ t[1] \in {"E", "F", "M", "P"}

\* C7: metadata decode never fails the load. For every metadata string
\* get_name_info returns without raising, and when the string holds no
\* recognizable Key:value token, energy, force and magnetism are 0.0.
C7_DecodeFallback ==
    (last.op = "get_name_info" /\ HasInfoString) =>
        /\ result = "ok"
        /\ (\A i \in 1..Len(InfoString) : ~IsKeyValue(InfoString[i])) =>
               (energy = <<0>> /\ force = <<0>> /\ magnetism = <<0>>)

\* the part of C7 about raising
C7_DecodeNeverRaises ==
    (last.op = "get_name_info" /\ HasInfoString) => result = "ok"

\* the string is made of Key:value tokens, numeric for E, F and M, each of
\* which keys one token
KeyedString(info) ==
    /\ \A i \in 1..Len(info) :
          IsKeyValue(info[i]) /\ (info[i][1] # "P" => IsFloatStr(info[i][2]))
    /\ \A key \in {"E", "F", "M"} :
          Cardinality({i \in 1..Len(info) : info[i][1] = key}) = 1

ValueKeyed(info, key) ==
    Float(info[CHOOSE i \in 1..Len(info) : info[i][1] = key][2])

\* C8: metadata decode maps by key. Energy comes from the token keyed E,
\* force from the one keyed F, magnetism from the one keyed M, wherever the
\* tokens stand; the path is not taken from the string.
C8_DecodeByKey ==
    (last.op = "get_name_info" /\ HasInfoString /\ KeyedString(InfoString)) =>
        /\ energy = <<ValueKeyed(InfoString, "E")>>
        /\ force = <<ValueKeyed(InfoString, "F")>>
        /\ magnetism = <<ValueKeyed(InfoString, "M")>>
        /\ path = <<Cwd>>

\* the iterator has read the whole file, or has raised
ArcDone == pos = Len(lines) \/ result # "ok"

IsStartLine(l) == StartsWithPBC(LineStrip(l))
IsEndLine(l) == StartsWithEnd(LineStrip(l))

\* a data line: an element label and at least three numeric tokens
IsDataLine(l) ==
    LET ts == Str2list(LineStrip(l))
    IN  /\ ~IsStartLine(l) /\ ~IsEndLine(l)
        /\ Len(ts) >= 4
        /\ \A c \in 2..4 : IsFloatStr(ts[c])

StartsOf(f) == {s \in 1..Len(f) : IsStartLine(f[s])}
EndsAfter(f, s) == {e \in (s + 1)..Len(f) : IsEndLine(f[e])}

\* the file is a run of blocks, each opened by a block-start line and closed
\* by the next end line, with data lines between; other lines lie outside
BlockFile(f) ==
    \A s \in StartsOf(f) :
        /\ EndsAfter(f, s) # {}
        /\ \A x \in (s + 1)..(Min(EndsAfter(f, s)) - 1) : IsDataLine(f[x])

\* the j-th block's rows, one per data line, in line order
BlockRows(f, j) ==
    LET s == Nth(StartsOf(f), j)
        e == Min(EndsAfter(f, s))
    IN  [x \in 1..(e - s - 1) |-> ParseVec(SubSeq(Str2list(LineStrip(f[s + x])), 2, 4))]

\* C10: trajectory frames. For a file of k blocks coords_iterator yields k
\* frames in file order, the j-th holding one row per data line of the j-th
\* block; lines outside the blocks give nothing; a file with no block-start
\* line yields no frame; none of this raises.
C10_Frames ==
    (ArcDone /\ last.op = "coords_iterator" /\ BlockFile(lines)) =>
        /\ result = "ok"
        /\ Len(frames) = Cardinality(StartsOf(lines))
        /\ \A j \in 1..Len(frames) : frames[j] = BlockRows(lines, j)

\* a file of two blocks, the first with a row, and a line before the first
\* block, has been read to its end
C10_Witness ==
    /\ ArcDone
    /\ last.op = "coords_iterator"
    /\ BlockFile(lines)
    /\ Len(frames) = 2
    /\ Len(frames[1]) >= 1
    /\ Len(lines) >= 1
    /\ ~IsStartLine(lines[1])

====
